---- MODULE Spec2Model ----
(***************************************************************************)
(* Model of src/worker.js: the outing-request approval worker.             *)
(*                                                                         *)
(* Every inbound request is an independent invocation (fetch, lines 1-23). *)
(* Each `await` of a network call or of createJWT is a point where other   *)
(* invocations may run, so every invocation is a small process whose steps *)
(* are the stretches of code between two awaits.  The only state shared    *)
(* between invocations is the spreadsheet (the range A:O of one tab) and  *)
(* the messaging platform's outbox.                                        *)
(***************************************************************************)
EXTENDS Integers, Sequences, FiniteSets, TLC

VARIABLES env, clock, uuidCount, sheet, outbox, pc, loc, trace

vars == <<env, clock, uuidCount, sheet, outbox, pc, loc, trace>>

----------------------------------------------------------------------------
(* Bounds of the model *)

\* number of inbound requests (invocations) in one run
MaxInv == 3
\* highest value of the wall clock (epoch seconds, abstracted)
MaxClock == 1
\* number of downstream calls of one run that end in a non-success status
MaxFailures == 1

Inv == 1..MaxInv

----------------------------------------------------------------------------
(* JavaScript values *)

\* null (URLSearchParams.get of a missing name) and undefined (a missing property)
NULL == "<null>"
UNDEF == "<undefined>"

\* JavaScript truthiness of a string-or-undefined value: x || y, !x
Truthy(x) == x # UNDEF /\ x # NULL /\ x # ""
OrElse(x, y) == IF Truthy(x) THEN x ELSE y
\* x ?? y
Coalesce(x, y) == IF x = UNDEF \/ x = NULL THEN y ELSE x

----------------------------------------------------------------------------
(* crypto.randomUUID(), line 31: the n-th identifier the runtime hands out. *)
(* Version-4 UUIDs are modelled as never repeating.                         *)
randomUUID(n) == "u" \o ToString(n)

----------------------------------------------------------------------------
(* Text.  A string that the code builds or takes apart is a sequence of    *)
(* tokens: the separators "&" and "=" and the pieces between them.         *)

\* the concatenation of the tokens of a piece
RECURSIVE Join(_)
Join(toks) == IF toks = <<>> THEN "" ELSE Head(toks) \o Join(Tail(toks))

\* position of the first occurrence of sep in toks, 0 when there is none
RECURSIVE IndexOf(_, _, _)
IndexOf(toks, sep, from) ==
  IF from > Len(toks) THEN 0
  ELSE IF toks[from] = sep THEN from
  ELSE IndexOf(toks, sep, from + 1)

\* toks split at every sep
RECURSIVE Split(_, _)
Split(toks, sep) ==
  LET k == IndexOf(toks, sep, 1)
  IN  IF k = 0 THEN <<toks>>
      ELSE <<SubSeq(toks, 1, k - 1)>> \o Split(SubSeq(toks, k + 1, Len(toks)), sep)

\* new URLSearchParams(data), line 61: the list of (name, value) pairs of a
\* query string; empty pieces are skipped, a piece is cut at its first "=",
\* and an absent argument gives the empty list.
RECURSIVE PairsOf(_)
PairsOf(pieces) ==
  IF pieces = <<>> THEN <<>>
  ELSE LET p == Head(pieces)
           k == IndexOf(p, "=", 1)
           pair == IF k = 0 THEN <<Join(p), "">>
                   ELSE <<Join(SubSeq(p, 1, k - 1)), Join(SubSeq(p, k + 1, Len(p)))>>
       IN  (IF p = <<>> THEN <<>> ELSE <<pair>>) \o PairsOf(Tail(pieces))

URLSearchParams(dataOpt) ==
  IF dataOpt = <<>> THEN <<>> ELSE PairsOf(Split(dataOpt[1], "&"))

\* params.get(name), lines 62-63: the first value of that name, or null
RECURSIVE ParamsGet(_, _)
ParamsGet(params, name) ==
  IF params = <<>> THEN NULL
  ELSE IF Head(params)[1] = name THEN Head(params)[2]
  ELSE ParamsGet(Tail(params), name)

\* the postback payload of a button of the approval card, lines 226 and 235:
\* the template `action=<action>&id=${id}`
ButtonDataUnseparated(action, id) == <<"action", "=", action, "id", "=", id>>
ButtonData(action, id) == <<"action", "=", action, "&", "id", "=", id>>

\* approvalFlex(id, d), lines 205-244: the interactive card, reduced to the
\* fields shown and the payloads of its two buttons
approvalFlex(id, d) ==
  [type |-> "flex", name |-> d.name,
   approve |-> ButtonData("approve", id),
   reject  |-> ButtonData("reject", id)]

----------------------------------------------------------------------------
(* Configuration (env) *)

\* PEM text of a PKCS8 RSA key, text that is no key, or no text at all
PrivateKeys == {"pem-pkcs8", "garbage", UNDEF}
Recipients == {"Uadmin", UNDEF}

Envs ==
  [SHEET_ID : {"sheet"},
   GOOGLE_CLIENT_EMAIL : {"svc@project.iam"},
   GOOGLE_PRIVATE_KEY : PrivateKeys,
   LINE_ADMIN_USERID : Recipients,
   LINE_TOKEN : {"line-token"}]

----------------------------------------------------------------------------
(* Google JWT, lines 161-193 *)

\* seconds a credential is valid, line 169
TokenLifetime == 3600

\* str2ab and crypto.subtle.importKey, lines 175-181 and 187-193: whether the
\* configured text yields a signing key.  A missing key makes str2ab throw
\* (str.replace of undefined), text that is no PKCS8 key makes atob or
\* importKey throw.
ImportKeyOk(key) == key = "pem-pkcs8"

NoJwt == [ok |-> FALSE, iss |-> "", scope |-> "", aud |-> "", exp |-> 0, iat |-> 0]

\* createJWT(env) at time now: the claim set of the signed token; ok is FALSE
\* when importKey or sign throws
createJWTExpiresAtOnce(e, now) ==
  [ok    |-> ImportKeyOk(e.GOOGLE_PRIVATE_KEY),
   iss   |-> e.GOOGLE_CLIENT_EMAIL,
   scope |-> "https://www.googleapis.com/auth/spreadsheets",
   aud   |-> "https://oauth2.googleapis.com/token",
   exp   |-> now,
   iat   |-> now]
createJWT(e, now) ==
  [ok    |-> ImportKeyOk(e.GOOGLE_PRIVATE_KEY),
   iss   |-> e.GOOGLE_CLIENT_EMAIL,
   scope |-> "https://www.googleapis.com/auth/spreadsheets",
   aud   |-> "https://oauth2.googleapis.com/token",
   exp   |-> now + TokenLifetime,
   iat   |-> now]

----------------------------------------------------------------------------
(* The spreadsheet: the rows of the range A:O, row 1 first.  A row keeps   *)
(* column A (id), B (name, standing for the submission fields B..I, which  *)
(* are copied the same way), J (lineid), K (status), L (comment), M        *)
(* (client IP), N (client agent) and O (timestamp).                        *)

HeaderRow ==
  [A |-> "ID", B |-> "name", J |-> "lineid", K |-> "status", L |-> "comment",
   M |-> "ip", N |-> "ua", O |-> "timestamp"]

NoRow ==
  [A |-> "", B |-> "", J |-> "", K |-> "", L |-> "", M |-> "", N |-> "", O |-> ""]

\* new Date().toISOString(), line 42
IsoString(t) == "T" \o ToString(t)

\* the row handleApply builds, lines 38-43
ApplyRow(id, data, now) ==
  [A |-> id, B |-> data.name, J |-> OrElse(data.lineid, ""),
   K |-> "pending", L |-> "",
   M |-> OrElse(data.ip, "unknown"), N |-> OrElse(data.ua, "unknown"),
   O |-> IsoString(now)]

\* values:append on A:O, lines 81-88: the row goes after the last row
SheetPrepend(sh, row) == <<row>> \o sh
SheetAppendTwice(sh, row) == Append(Append(sh, row), row)
SheetAppend(sh, row) == Append(sh, row)

\* GET of A:O, lines 96-101: sheet.values of the response body.  The empty
\* sequence stands for undefined: an error body has no values, and the store
\* leaves values out of the body when the range holds no cell.
SheetValues(sh, ok) == IF ok /\ sh # <<>> THEN <<sh>> ELSE <<>>

\* rows.findIndex(r => r[0] === id), line 102, 0-based; -1 when no row matches
RECURSIVE FindFrom(_, _, _)
FindFrom(rows, id, k) ==
  IF k > Len(rows) THEN -1
  ELSE IF rows[k].A = id THEN k - 1
  ELSE FindFrom(rows, id, k + 1)

findIndex(rows, id) == FindFrom(rows, id, 1)

\* line 105
RowIndexSame(idx) == idx
RowIndexOf(idx) == idx + 1

\* a cell after a RAW write of value v: null is skipped by the store, any
\* string (the empty one too) replaces the cell
CellPut(old, v) == IF v = NULL THEN old ELSE v

\* PUT of K<rowIndex>:L<rowIndex> with values [[status, comment]], lines 106-116
SheetPutJK(sh, rowIndex, status, comment) ==
  IF rowIndex \in 1..Len(sh)
  THEN [sh EXCEPT ![rowIndex] = [@ EXCEPT !.J = CellPut(@, status),
                                          !.K = CellPut(@, comment)]]
  ELSE sh
SheetPutIfPending(sh, rowIndex, status, comment) ==
  IF rowIndex \in 1..Len(sh) /\ sh[rowIndex].K = "pending"
  THEN [sh EXCEPT ![rowIndex] = [@ EXCEPT !.K = CellPut(@, status),
                                          !.L = CellPut(@, comment)]]
  ELSE sh
SheetPut(sh, rowIndex, status, comment) ==
  IF rowIndex \in 1..Len(sh)
  THEN [sh EXCEPT ![rowIndex] = [@ EXCEPT !.K = CellPut(@, status),
                                          !.L = CellPut(@, comment)]]
  ELSE sh

----------------------------------------------------------------------------
(* Inbound requests *)

\* POST /apply: the JSON body (name standing for the submission fields) and
\* the CF-Connecting-IP header
ApplyRequests ==
  { [name |-> "A", lineid |-> UNDEF, ua |-> "UA", ip |-> UNDEF] }

NoData == [name |-> "", lineid |-> UNDEF, ua |-> UNDEF, ip |-> UNDEF]

\* POST /webhook: the event envelope.  events is the list of events; the
\* postback of an event and the data of a postback are lists of length 0
\* (absent) or 1; comment is postback.params?.comment, undefined when the
\* platform sent none.
NoEvents == [events |-> <<>>]
NoPostback == [events |-> << [postback |-> <<>>] >>]
Postback(dataOpt, comment) ==
  [events |-> << [postback |-> << [data |-> dataOpt, comment |-> comment] >>] >>]

WebhookBodies ==
  { Postback(<<ButtonData("approve", "u1")>>, "OK"),
    Postback(<<ButtonData("reject", "u1")>>, UNDEF),
    Postback(<<ButtonData("approve", "u2")>>, UNDEF),
    Postback(<<ButtonData("hold", "u1")>>, UNDEF),
    Postback(<< <<"id", "=", "u1">> >>, "late"),
    Postback(<<ButtonData("approve", "ID")>>, UNDEF),
    Postback(<<>>, UNDEF),
    NoEvents, NoPostback }

----------------------------------------------------------------------------
(* State *)
(*   env        the configuration of the deployment                        *)
(*   clock      the wall clock (epoch seconds) as last read                *)
(*   uuidCount  how many identifiers crypto.randomUUID has handed out      *)
(*   sheet      the rows of the store                                      *)
(*   outbox     the push calls made to the messaging platform              *)
(*   pc[i]      where invocation i stands                                  *)
(*   loc[i]     the local variables of invocation i (nrows is rows.length  *)
(*              of the rows updateSheetStatus has read)                    *)
(*   trace[i]   the outbound calls invocation i has completed, in order    *)

NoResponse == [status |-> 0, body |-> "", id |-> ""]
\* json({ id }), line 48
JsonId(id) == [status |-> 200, body |-> "{id}", id |-> id]
\* json({ ok: true }), line 59
JsonBadRequest == [status |-> 400, body |-> "{ok:false}", id |-> ""]
JsonOk == [status |-> 200, body |-> "{ok:true}", id |-> ""]
\* new Response("OK"), line 72
TextOk == [status |-> 200, body |-> "OK", id |-> ""]
\* a rejected handler promise: the runtime answers with an error
Thrown == [status |-> 500, body |-> "exception", id |-> ""]

NoLocals ==
  [kind |-> "none", id |-> "", action |-> "", comment |-> "", data |-> NoData,
   events |-> <<>>, row |-> NoRow, jwt |-> NoJwt, nrows |-> 0, rowIndex |-> 0,
   response |-> NoResponse]

\* where an invocation stands after `await createJWT(env)`, lines 80 and 93:
\* a rejection is not caught, so it ends the invocation
AfterSignSwallowed(ok, next) == next
AfterSignStraightToWrite(ok, next) ==
  IF ~ok THEN "failed" ELSE IF next = "update_get" THEN "update_put" ELSE next
AfterSignInverted(ok, next) == IF ok THEN "failed" ELSE next
AfterSign(ok, next) == IF ok THEN next ELSE "failed"

\* a completed call: op is "sign", "POST", "GET", "PUT" or "push"; ok is
\* whether it succeeded (for a fetch: a success status); cred is the number,
\* within the invocation, of the signing that made the token the call
\* carried (for a signing: its own number; 0 for a push, which carries the
\* static token)
Call(op, ok, cred) == [op |-> op, ok |-> ok, cred |-> cred]

Signs(i) == Len(SelectSeq(trace[i], LAMBDA c : c.op = "sign"))
StoreCalls(i) == SelectSeq(trace[i], LAMBDA c : c.op \in {"POST", "GET", "PUT"})
PushCalls(i) == SelectSeq(trace[i], LAMBDA c : c.op = "push")

Init ==
  /\ env \in Envs
  /\ clock = 0
  /\ uuidCount = 0
  /\ sheet \in {<<>>, <<HeaderRow>>}
  /\ outbox = {}
  /\ pc = [i \in Inv |-> "idle"]
  /\ loc = [i \in Inv |-> NoLocals]
  /\ trace = [i \in Inv |-> <<>>]

\* requests are numbered in the order in which they arrive
Arrives(i) == pc[i] = "idle" /\ \A j \in 1..(i - 1) : pc[j] # "idle"

\* Date.now() and new Date(), lines 42 and 163: a reading of the wall clock,
\* never earlier than the reading before it
Readings == clock..MaxClock

\* the downstream calls that ended in a non-success status so far
Failed(i) == Len(SelectSeq(trace[i], LAMBDA c : c.op # "sign" /\ ~c.ok))

RECURSIVE FailuresUpTo(_)
FailuresUpTo(n) == IF n = 0 THEN 0 ELSE Failed(n) + FailuresUpTo(n - 1)

Failures == FailuresUpTo(MaxInv)

\* the outcomes a fetch may have: a success status, or a non-success one
Outcomes == IF Failures < MaxFailures THEN BOOLEAN ELSE {TRUE}

----------------------------------------------------------------------------
(* handleApply, lines 29-49 *)

\* lines 30-43, up to the call of appendToSheet
ApplyStart(i, req, now) ==
  /\ Arrives(i)
  /\ clock' = now
  /\ LET id == randomUUID(uuidCount + 1)
     IN  loc' = [loc EXCEPT ![i] = [@ EXCEPT !.kind = "apply", !.id = id, !.data = req,
                                             !.row = ApplyRow(id, req, now)]]
  /\ uuidCount' = uuidCount + 1
  /\ pc' = [pc EXCEPT ![i] = "append_jwt"]
  /\ UNCHANGED <<env, sheet, outbox, trace>>

\* appendToSheet, line 80: await createJWT(env)
AppendJwt(i, now) ==
  /\ pc[i] = "append_jwt"
  /\ clock' = now
  /\ LET t == createJWT(env, now)
     IN  /\ trace' = [trace EXCEPT ![i] = Append(@, Call("sign", t.ok, Signs(i) + 1))]
         /\ pc' = [pc EXCEPT ![i] = AfterSign(t.ok, "append_post")]
         /\ loc' = IF pc'[i] = "failed"
                   THEN [loc EXCEPT ![i].response = Thrown]
                   ELSE [loc EXCEPT ![i].jwt = t]
  /\ UNCHANGED <<env, uuidCount, sheet, outbox>>

\* appendToSheet, lines 81-89: the POST and res.text(); the status of the
\* response is not looked at
AppendPost(i, ok) ==
  /\ pc[i] = "append_post"
  /\ sheet' = IF ok THEN SheetAppend(sheet, loc[i].row) ELSE sheet
  /\ trace' = [trace EXCEPT ![i] = Append(@, Call("POST", ok, Signs(i)))]
  /\ loc' = [loc EXCEPT ![i].jwt = NoJwt]
  /\ pc' = [pc EXCEPT ![i] = "card"]
  /\ UNCHANGED <<env, clock, uuidCount, outbox>>

\* sendLineApprovalCard, lines 123-137, and the return of line 48
SendCard(i, ok) ==
  /\ pc[i] = "card"
  /\ outbox' = outbox \cup
       {[by |-> i, ok |-> ok, to |-> env.LINE_ADMIN_USERID, type |-> "flex",
         id |-> loc[i].id, card |-> approvalFlex(loc[i].id, loc[i].data)]}
  /\ trace' = [trace EXCEPT ![i] = Append(@, Call("push", ok, 0))]
  /\ loc' = [loc EXCEPT ![i].response = JsonId(loc[i].id)]
  /\ pc' = [pc EXCEPT ![i] = "done"]
  /\ UNCHANGED <<env, clock, uuidCount, sheet>>

----------------------------------------------------------------------------
(* handleWebhook, lines 55-73 *)

\* lines 56-64, up to the call of updateSheetStatus
WebhookStart(i, body) ==
  /\ Arrives(i)
  /\ IF body.events = <<>> \/ body.events[1].postback = <<>>
     THEN /\ loc' = [loc EXCEPT ![i] = [@ EXCEPT !.kind = "webhook",
                                                 !.events = body.events,
                                                 !.response = JsonOk]]
          /\ pc' = [pc EXCEPT ![i] = "done"]
     ELSE LET postback == body.events[1].postback[1]
              params == URLSearchParams(postback.data)
          IN  /\ loc' = [loc EXCEPT ![i] =
                           [@ EXCEPT !.kind = "webhook",
                                     !.events = body.events,
                                     !.id = ParamsGet(params, "id"),
                                     !.action = ParamsGet(params, "action"),
                                     !.comment = Coalesce(postback.comment, "")]]
              /\ pc' = [pc EXCEPT ![i] = "update_jwt"]
  /\ UNCHANGED <<env, clock, uuidCount, sheet, outbox, trace>>

\* updateSheetStatus, line 93: await createJWT(env)
UpdateJwt(i, now) ==
  /\ pc[i] = "update_jwt"
  /\ clock' = now
  /\ LET t == createJWT(env, now)
     IN  /\ trace' = [trace EXCEPT ![i] = Append(@, Call("sign", t.ok, Signs(i) + 1))]
         /\ pc' = [pc EXCEPT ![i] = AfterSign(t.ok, "update_get")]
         /\ loc' = IF pc'[i] = "failed"
                   THEN [loc EXCEPT ![i].response = Thrown]
                   ELSE [loc EXCEPT ![i].jwt = t]
  /\ UNCHANGED <<env, uuidCount, sheet, outbox>>

\* updateSheetStatus, lines 96-105: the GET, the scan and the early return.
\* rows.findIndex throws when sheet.values is undefined.
UpdateGet(i, ok) ==
  /\ pc[i] = "update_get"
  /\ trace' = [trace EXCEPT ![i] = Append(@, Call("GET", ok, Signs(i)))]
  /\ LET values == SheetValues(sheet, ok)
     IN  IF values = <<>>
         THEN /\ loc' = [loc EXCEPT ![i] = [@ EXCEPT !.response = Thrown, !.jwt = NoJwt]]
              /\ pc' = [pc EXCEPT ![i] = "failed"]
         ELSE LET idx == findIndex(values[1], loc[i].id)
              IN  IF idx < 0
                  THEN /\ loc' = [loc EXCEPT ![i].jwt = NoJwt]
                       /\ pc' = [pc EXCEPT ![i] = "notify"]
                  ELSE /\ loc' = [loc EXCEPT ![i] =
                                    [@ EXCEPT !.nrows = Len(values[1]),
                                              !.rowIndex = RowIndexOf(idx)]]
                       /\ pc' = [pc EXCEPT ![i] = "update_put"]
  /\ UNCHANGED <<env, clock, uuidCount, sheet, outbox>>

\* updateSheetStatus, lines 106-116: the PUT; its response is not looked at
UpdatePut(i, ok) ==
  /\ pc[i] = "update_put"
  /\ sheet' = IF ok
              THEN SheetPut(sheet, loc[i].rowIndex, loc[i].action, loc[i].comment)
              ELSE sheet
  /\ trace' = [trace EXCEPT ![i] = Append(@, Call("PUT", ok, Signs(i)))]
  /\ loc' = [loc EXCEPT ![i] = [@ EXCEPT !.jwt = NoJwt, !.nrows = 0]]
  /\ pc' = [pc EXCEPT ![i] = "notify"]
  /\ UNCHANGED <<env, clock, uuidCount, outbox>>

\* a value inside a template literal
Str(x) == IF x = NULL THEN "null" ELSE IF x = UNDEF THEN "undefined" ELSE x

\* notifyApplicant, lines 139-155, and the return of line 72
Notify(i, ok) ==
  /\ pc[i] = "notify"
  /\ IF ~Truthy(env.LINE_ADMIN_USERID)
     THEN /\ ok
          /\ UNCHANGED <<outbox, trace>>
     ELSE /\ outbox' = outbox \cup
               {[by |-> i, ok |-> ok, to |-> env.LINE_ADMIN_USERID, type |-> "text",
                 id |-> Str(loc[i].id), status |-> Str(loc[i].action),
                 comment |-> Str(loc[i].comment)]}
          /\ trace' = [trace EXCEPT ![i] = Append(@, Call("push", ok, 0))]
  /\ loc' = [loc EXCEPT ![i].response = TextOk]
  /\ pc' = [pc EXCEPT ![i] = "done"]
  /\ UNCHANGED <<env, clock, uuidCount, sheet>>

----------------------------------------------------------------------------

Next ==
  \/ \E i \in Inv : \E req \in ApplyRequests : \E now \in Readings : ApplyStart(i, req, now)
  \/ \E i \in Inv : \E now \in Readings : AppendJwt(i, now)
  \/ \E i \in Inv : \E ok \in Outcomes : AppendPost(i, ok)
  \/ \E i \in Inv : \E ok \in Outcomes : SendCard(i, ok)
  \/ \E i \in Inv : \E body \in WebhookBodies : WebhookStart(i, body)
  \/ \E i \in Inv : \E now \in Readings : UpdateJwt(i, now)
  \/ \E i \in Inv : \E ok \in Outcomes : UpdateGet(i, ok)
  \/ \E i \in Inv : \E ok \in Outcomes : UpdatePut(i, ok)
  \/ \E i \in Inv : \E ok \in Outcomes : Notify(i, ok)

Spec == Init /\ [][Next]_vars

----------------------------------------------------------------------------
(* Runs in which the signing key is valid and every downstream call        *)
(* returns a success status.  The runtime carries every invocation on to   *)
(* its end: each await resumes once the awaited call has completed.  The   *)
(* clock is read without advancing: these runs differ from one another in  *)
(* the time only by the timestamps they store and sign.                    *)

InitOk == Init /\ ImportKeyOk(env.GOOGLE_PRIVATE_KEY)

\* the next step of invocation i, after its first
Continue(i) ==
  \/ AppendJwt(i, clock)
  \/ AppendPost(i, TRUE)
  \/ SendCard(i, TRUE)
  \/ UpdateJwt(i, clock)
  \/ UpdateGet(i, TRUE)
  \/ UpdatePut(i, TRUE)
  \/ Notify(i, TRUE)

NextOk ==
  \/ \E i \in Inv : \E req \in ApplyRequests : ApplyStart(i, req, clock)
  \/ \E i \in Inv : \E body \in WebhookBodies : WebhookStart(i, body)
  \/ \E i \in Inv : Continue(i)

SpecOk == InitOk /\ [][NextOk]_vars /\ \A i \in Inv : WF_vars(Continue(i))

----------------------------------------------------------------------------
(* Vocabulary of the properties *)

\* the identifiers handed out to submissions so far
IssuedIds == {randomUUID(n) : n \in 1..uuidCount}

\* the positions of the rows whose first column is id
RowsOf(id) == {r \in 1..Len(sheet) : sheet[r].A = id}

\* the rows appended by a submission
RecordRows == {r \in 1..Len(sheet) : sheet[r].A \in IssuedIds}

Applies == {i \in Inv : loc[i].kind = "apply"}
Webhooks == {i \in Inv : loc[i].kind = "webhook"}

\* the decision events: webhook events that carry a postback
Decisions ==
  {i \in Webhooks : loc[i].events # <<>> /\ loc[i].events[1].postback # <<>>}

HasCall(i, op, ok) == \E k \in 1..Len(trace[i]) : trace[i][k].op = op /\ trace[i][k].ok = ok

SignFailed(i) == HasCall(i, "sign", FALSE)

\* invocation i takes the step from pc value a to pc value b
Step(i, a, b) == pc[i] = a /\ pc'[i] = b

MessagesBy(i) == {m \in outbox : m.by = i}

----------------------------------------------------------------------------
(* C1 *)

\* C1 as claimed: no two rows of the store have the same id in their first
\* column, and every id returned by a submission is the id of exactly one row.
C1_Original ==
  /\ \A r1, r2 \in 1..Len(sheet) : r1 # r2 => sheet[r1].A # sheet[r2].A
  /\ \A i \in Applies :
       loc[i].response.status = 200 => Cardinality(RowsOf(loc[i].response.id)) = 1

\* C1 as amended: no two rows of the store have the same id in their first
\* column, and every id returned by a submission is the id of at most one
\* row: of exactly one when the store answered the append with a success
\* status, of none when it did not.
C1_UniqueIds ==
  /\ \A r1, r2 \in 1..Len(sheet) : r1 # r2 => sheet[r1].A # sheet[r2].A
  /\ \A i \in Applies :
       loc[i].response.status = 200 =>
         /\ loc[i].response.id = loc[i].id
         /\ Cardinality(RowsOf(loc[i].response.id)) =
              IF HasCall(i, "POST", TRUE) THEN 1 ELSE 0

\* two submissions have returned, both rows are in the store, and decision
\* events have been processed as well
C1_Witness ==
  \E i, j \in Applies :
    /\ i # j
    /\ loc[i].response.status = 200 /\ loc[j].response.status = 200
    /\ RowsOf(loc[i].id) # {} /\ RowsOf(loc[j].id) # {}
    /\ \E w \in Decisions : pc[w] = "done" /\ HasCall(w, "PUT", TRUE)

----------------------------------------------------------------------------
(* C2 *)

\* C2 as claimed: when the write of a decision event with action=approve and
\* an id that has a record succeeds, the record of that id has status
\* approved and the comment of the event (the empty string when the event
\* supplied none).
C2_ApproveStoresApproved ==
  [][\A i \in Decisions :
       (/\ Step(i, "update_put", "notify")
        /\ loc[i].action = "approve"
        /\ loc[i].id \in IssuedIds
        /\ HasCall(i, "PUT", TRUE)')
       => \E r \in 1..Len(sheet') :
            /\ sheet'[r].A = loc[i].id
            /\ sheet'[r].K = "approved"
            /\ sheet'[r].L = loc[i].comment]_vars

----------------------------------------------------------------------------
(* C3 *)

\* C3 as claimed: for every store state (an empty store too), when the range
\* read of a decision event succeeds and the event's id matches no row, the
\* event changes no row and does not fail: it goes on to answer OK.
C3_MissIsSilent ==
  [][\A i \in Decisions :
       (/\ pc[i] = "update_get" /\ pc'[i] # "update_get"
        /\ HasCall(i, "GET", TRUE)'
        /\ RowsOf(loc[i].id) = {})
       => sheet' = sheet /\ pc'[i] = "notify"]_vars

----------------------------------------------------------------------------
(* C4 *)

\* C4 as claimed: in every reachable state the status of every record is one
\* of pending, approved, rejected.
C4_StatusDomain ==
  \A r \in RecordRows : sheet[r].K \in {"pending", "approved", "rejected"}

----------------------------------------------------------------------------
(* C5 *)

\* C5 as claimed: once the status of a record is no longer pending, no later
\* step changes that record's status or comment.
C5_Original ==
  [][\A r \in RecordRows :
       sheet[r].K # "pending" => sheet'[r].K = sheet[r].K /\ sheet'[r].L = sheet[r].L]_vars

\* C5 as amended: a record's status and comment are changed only by the
\* write of a decision event for its id, and every such write that the store
\* accepts replaces them by the action and the comment of that event (an
\* event without an action leaves the status as it is), whatever the status
\* was: a later decision for the same id overwrites an earlier one.
C5_LastDecisionOverwrites ==
  [][/\ \A r \in RecordRows :
          (sheet'[r].K # sheet[r].K \/ sheet'[r].L # sheet[r].L) =>
            \E i \in Decisions :
              Step(i, "update_put", "notify") /\ loc[i].id = sheet[r].A
     /\ \A i \in Decisions :
          (Step(i, "update_put", "notify") /\ HasCall(i, "PUT", TRUE)'
             /\ loc[i].id \in IssuedIds) =>
            \A r \in RowsOf(loc[i].id) :
              /\ sheet'[r].K = (IF loc[i].action = NULL THEN sheet[r].K ELSE loc[i].action)
              /\ sheet'[r].L = loc[i].comment]_vars

\* two decision events for the same record have both written, and the
\* record holds the action and comment of one of them, which differ from
\* those of the other
C5_Witness ==
  \E i, j \in Decisions :
    /\ i # j /\ loc[i].id = loc[j].id /\ loc[i].id \in IssuedIds
    /\ HasCall(i, "PUT", TRUE) /\ HasCall(j, "PUT", TRUE)
    /\ loc[i].action # loc[j].action /\ loc[i].action # NULL /\ loc[j].action # NULL
    /\ \E r \in RowsOf(loc[i].id) :
         sheet[r].K = loc[j].action /\ sheet[r].L = loc[j].comment

----------------------------------------------------------------------------
(* C6 *)

\* C6: a record whose status is not pending or whose comment is not empty
\* has had the write of a decision event for its own id accepted by the
\* store: from its append until then it is pending with an empty comment,
\* whatever submissions and decision events for other ids did.
C6_PendingUntilDecided ==
  \A r \in RecordRows :
    (sheet[r].K # "pending" \/ sheet[r].L # "") =>
      \E i \in Decisions : loc[i].id = sheet[r].A /\ HasCall(i, "PUT", TRUE)

\* two records are in the store; a decision for the first has been written
\* and answered, and the second is still pending with an empty comment
C6_Witness ==
  \E r1, r2 \in RecordRows :
    /\ r1 # r2
    /\ sheet[r1].K # "pending"
    /\ sheet[r2].K = "pending" /\ sheet[r2].L = ""
    /\ \E i \in Decisions :
         pc[i] = "done" /\ loc[i].id = sheet[r1].A /\ HasCall(i, "PUT", TRUE)

----------------------------------------------------------------------------
(* C7 *)

\* C7: a webhook event without a postback (no event at all, or a first event
\* that has none) is answered with the success acknowledgment, and its
\* invocation makes no signing, no store call and no messaging call.
C7_NoPostbackNoCalls ==
  \A i \in Webhooks \ Decisions :
    /\ pc[i] = "done"
    /\ loc[i].response.status = 200 /\ loc[i].response.body = "{ok:true}"
    /\ trace[i] = <<>>
    /\ MessagesBy(i) = {}

\* both kinds of event without a postback have been answered while a
\* submission's row is in the store
C7_Witness ==
  /\ \E i \in Webhooks : loc[i].events = <<>> /\ pc[i] = "done"
  /\ \E i \in Webhooks :
       loc[i].events # <<>> /\ loc[i].events[1].postback = <<>> /\ pc[i] = "done"
  /\ RecordRows # {}

----------------------------------------------------------------------------
(* C8 *)

\* C8 as claimed: a webhook event whose postback carries no data causes no
\* store call and no outcome message and, unless the signing fails, is
\* answered with success.
C8_NoDataIsBenign ==
  \A i \in Decisions :
    (loc[i].events[1].postback[1].data = <<>> /\ ~SignFailed(i)) =>
      /\ StoreCalls(i) = <<>>
      /\ MessagesBy(i) = {}
      /\ pc[i] # "failed"
      /\ (pc[i] = "done" => loc[i].response.status = 200)

----------------------------------------------------------------------------
(* C9 *)

\* C9: when the signing of an invocation fails, the invocation fails with
\* the error and has no effect: it makes no store call and no messaging
\* call, a submission appends no row and returns no id, a decision event
\* reads and writes nothing and sends no outcome message.
C9_SignFailureIsFatal ==
  \A i \in Inv :
    SignFailed(i) =>
      /\ pc[i] = "failed"
      /\ loc[i].response.status = 500 /\ loc[i].response.id = ""
      /\ StoreCalls(i) = <<>> /\ PushCalls(i) = <<>>
      /\ MessagesBy(i) = {}
      /\ (i \in Applies => RowsOf(loc[i].id) = {})

\* a submission and a decision event have both failed at the signing
C9_Witness ==
  /\ \E i \in Applies : SignFailed(i) /\ pc[i] = "failed"
  /\ \E i \in Decisions : SignFailed(i) /\ pc[i] = "failed"

----------------------------------------------------------------------------
(* C10 *)

\* C10 as claimed: an invocation whose signing succeeded and one of whose
\* downstream calls (store append, range read, range write, push) returned a
\* non-success status does not fail: it goes on through its remaining steps
\* and, once finished, has answered with its success response.
C10_FailuresAreIgnored ==
  \A i \in Inv :
    (~SignFailed(i) /\ \E k \in 1..Len(trace[i]) : ~trace[i][k].ok) =>
      /\ pc[i] # "failed"
      /\ (pc[i] = "done" => loc[i].response.status = 200)

----------------------------------------------------------------------------
(* C11 *)

\* C11: every credential that createJWT produces carries iat equal to the
\* clock reading of its signing and exp exactly iat + 3600, the configured
\* service identity as issuer, the store scope and the token-exchange
\* audience.
C11_CredentialClaims ==
  [][\A i \in Inv :
       (Len(trace'[i]) = Len(trace[i]) + 1 /\ trace'[i][Len(trace'[i])].op = "sign"
          /\ trace'[i][Len(trace'[i])].ok) =>
         /\ loc'[i].jwt.ok
         /\ loc'[i].jwt.iat = clock'
         /\ loc'[i].jwt.exp = loc'[i].jwt.iat + 3600
         /\ loc'[i].jwt.iss = env.GOOGLE_CLIENT_EMAIL
         /\ loc'[i].jwt.scope = "https://www.googleapis.com/auth/spreadsheets"
         /\ loc'[i].jwt.aud = "https://oauth2.googleapis.com/token"]_vars

\* two credentials signed at different times are held at once, one by a
\* submission and one by a decision event
C11_Witness ==
  \E i \in Applies : \E j \in Decisions :
    /\ loc[i].jwt.ok /\ loc[j].jwt.ok
    /\ loc[i].jwt.iat # loc[j].jwt.iat
    /\ loc[i].jwt.exp = loc[i].jwt.iat + 3600
    /\ loc[j].jwt.exp = loc[j].jwt.iat + 3600

----------------------------------------------------------------------------
(* C12 *)

\* the approval card of submission i and the outcome message of decision i
CardOf(i) == {m \in MessagesBy(i) : m.type = "flex" /\ m.id = loc[i].id}
OutcomeOf(i) ==
  {m \in MessagesBy(i) :
     /\ m.type = "text" /\ m.id = loc[i].id
     /\ m.status = Str(loc[i].action) /\ m.comment = loc[i].comment}

\* decision i has an action and an id that has a record
DecidesRecord(i) ==
  i \in Decisions /\ loc[i].action # NULL /\ RowsOf(loc[i].id) \cap RecordRows # {}

\* C12 as claimed, for the runs in which the signing and every call succeed:
\* a submission that has returned has left exactly one row of its id, one
\* approval card and a response carrying the id; a decision event that has
\* returned, for an id that has a record, has written the row, has sent an
\* outcome message with the id, status and comment, and has answered OK.
C12_Original ==
  /\ \A i \in Applies :
       pc[i] = "done" =>
         /\ Cardinality(RowsOf(loc[i].id)) = 1
         /\ Cardinality(CardOf(i)) = 1
         /\ loc[i].response.status = 200 /\ loc[i].response.id = loc[i].id
  /\ \A i \in Inv :
       (DecidesRecord(i) /\ HasCall(i, "GET", TRUE) /\ pc[i] = "done") =>
         /\ (loc[i].rowIndex > 0 => HasCall(i, "PUT", TRUE))
         /\ (HasCall(i, "PUT", TRUE) => Cardinality(OutcomeOf(i)) = 1)
         /\ loc[i].response.status = 200 /\ loc[i].response.body = "OK"

\* C12 as amended: provided the signing succeeds and every network call
\* returns a success status, every submission eventually has appended exactly
\* one new row, with status pending, then has dispatched one approval card
\* and answered with the id; and every decision event that carries an action
\* and an id that has a record eventually has written that row with its
\* action and comment, and then has answered OK, after one outcome message
\* with the id, action and comment when a recipient is configured, and
\* after no outcome message when none is.
C12_EventuallyDone ==
  \A i \in Inv :
    /\ (pc[i] = "append_jwt") ~>
         (/\ pc[i] = "card"
          /\ Cardinality(RowsOf(loc[i].id)) = 1
          /\ \A r \in RowsOf(loc[i].id) : sheet[r].K = "pending" /\ sheet[r].L = ""
          /\ MessagesBy(i) = {})
    /\ (pc[i] = "card") ~>
         (/\ pc[i] = "done"
          /\ Cardinality(RowsOf(loc[i].id)) = 1
          /\ Cardinality(CardOf(i)) = 1
          /\ loc[i].response.status = 200 /\ loc[i].response.id = loc[i].id)
    /\ (pc[i] = "update_jwt" /\ DecidesRecord(i)) ~>
         (/\ pc[i] = "notify"
          /\ \A r \in RowsOf(loc[i].id) :
               sheet[r].K = loc[i].action /\ sheet[r].L = loc[i].comment
          /\ MessagesBy(i) = {})
    /\ (pc[i] = "notify" /\ HasCall(i, "PUT", TRUE)) ~>
         (/\ pc[i] = "done"
          /\ Cardinality(OutcomeOf(i)) = (IF Truthy(env.LINE_ADMIN_USERID) THEN 1 ELSE 0)
          /\ Cardinality(MessagesBy(i)) = Cardinality(OutcomeOf(i))
          /\ loc[i].response.status = 200 /\ loc[i].response.body = "OK")

\* a submission and a decision event for its record have both run to their
\* end, with the card and the outcome message sent
C12_Witness ==
  \E i \in Applies : \E j \in Inv :
    /\ pc[i] = "done" /\ pc[j] = "done" /\ DecidesRecord(j)
    /\ loc[j].id = loc[i].id
    /\ CardOf(i) # {} /\ OutcomeOf(j) # {}
    /\ \E r \in RowsOf(loc[i].id) : sheet[r].K = loc[j].action

----------------------------------------------------------------------------
(* C13 *)

\* the cells of a row other than status (K) and comment (L)
Frame(row) == <<row.A, row.B, row.J, row.M, row.N, row.O>>

\* C13: a step of a webhook invocation adds and removes no row and changes
\* no cell other than the status and comment of the single row its scan
\* matched, whose first column is the event's id; all other steps of a
\* webhook invocation leave the store as it is.
C13_WritesOnlyStatusAndComment ==
  [][\A i \in Webhooks :
       pc'[i] # pc[i] =>
         /\ Len(sheet') = Len(sheet)
         /\ \A r \in 1..Len(sheet) :
              /\ Frame(sheet'[r]) = Frame(sheet[r])
              /\ sheet'[r] # sheet[r] =>
                   /\ pc[i] = "update_put"
                   /\ r = loc[i].rowIndex
                   /\ sheet[r].A = loc[i].id]_vars

\* a decision event has rewritten the status and the comment of the first
\* of two records; the rest of that row and the other record are as appended
C13_Witness ==
  \E i \in Decisions : \E a, b \in Applies :
    /\ a # b /\ loc[i].id = loc[a].id /\ HasCall(i, "PUT", TRUE)
    /\ \E r \in RowsOf(loc[a].id) :
         /\ sheet[r].K # "pending" /\ sheet[r].L # ""
         /\ Frame(sheet[r]) = Frame(loc[a].row)
    /\ \E r \in RowsOf(loc[b].id) : sheet[r] = loc[b].row

----------------------------------------------------------------------------
(* C14 *)

\* C14: whatever submissions append between the range read and the write of
\* a decision event, the row position computed from the read addresses a
\* row of the store whose first column is the event's id when the write is
\* applied.
C14_RowIndexStaysValid ==
  \A i \in Decisions :
    pc[i] = "update_put" =>
      /\ loc[i].rowIndex \in 1..Len(sheet)
      /\ sheet[loc[i].rowIndex].A = loc[i].id

\* a decision event has read the range and is about to write, and the store
\* has since grown by a submission's row
C14_Witness ==
  \E i \in Decisions :
    /\ pc[i] = "update_put"
    /\ loc[i].id \in IssuedIds
    /\ Len(sheet) > loc[i].nrows
    /\ sheet[loc[i].rowIndex].A = loc[i].id

----------------------------------------------------------------------------
(* C15 *)

\* C15: when two decision events for the same record with different actions
\* are in flight together, both reads find the same row and both writes are
\* applied, the second over the first: each write the store accepts leaves
\* the record with the status and comment of the event that wrote it, so the record
\* ends with those of the write that reached the store last, whichever
\* event was received or read first.
C15_LastWriteWins ==
  [][\A i, j \in Decisions :
       (/\ i # j /\ loc[i].id = loc[j].id /\ loc[i].id \in IssuedIds
        /\ loc[i].action # NULL /\ loc[j].action # NULL
        /\ loc[i].action # loc[j].action
        /\ (pc[i] = "update_put" \/ HasCall(i, "PUT", TRUE))
        /\ pc[j] = "update_put"
        /\ pc'[j] # pc[j] /\ HasCall(j, "PUT", TRUE)')
       => /\ loc[i].rowIndex = loc[j].rowIndex
          /\ sheet'[loc[j].rowIndex].A = loc[j].id
          /\ sheet'[loc[j].rowIndex].K = loc[j].action
          /\ sheet'[loc[j].rowIndex].L = loc[j].comment
          /\ pc'[i] = pc[i]
          /\ pc[i] = "update_put" => ENABLED UpdatePut(i, TRUE)]_vars

\* two decision events for one record have both written; the one received
\* first wrote last, and the record holds its action and comment
C15_Witness ==
  \E i, j \in Decisions :
    /\ i < j /\ loc[i].id = loc[j].id /\ loc[i].id \in IssuedIds
    /\ loc[i].action # NULL /\ loc[j].action # NULL /\ loc[i].action # loc[j].action
    /\ HasCall(i, "PUT", TRUE) /\ HasCall(j, "PUT", TRUE)
    /\ pc[i] = "notify" /\ pc[j] = "done"
    /\ \E r \in RowsOf(loc[i].id) :
         sheet[r].K = loc[i].action /\ sheet[r].L = loc[i].comment

----------------------------------------------------------------------------
(* C16 *)

\* the outbound fetches invocation i has completed, in order
RECURSIVE OpsOf(_)
OpsOf(calls) ==
  IF calls = <<>> THEN <<>>
  ELSE (IF Head(calls).op = "sign" THEN <<>> ELSE <<Head(calls).op>>) \o OpsOf(Tail(calls))

IsPrefix(p, q) == Len(p) <= Len(q) /\ SubSeq(q, 1, Len(p)) = p

\* C16: the fetches of an invocation are issued one after the other, each
\* once the one before it has completed, in the order append, card push for
\* a submission and range read, write, outcome push for a decision (the
\* write being skipped when the scan finds no row); no invocation writes to
\* the store before a range read of its own has completed with rows.
C16_CallsInSequence ==
  \A i \in Inv :
    LET ops == OpsOf(trace[i])
    IN  /\ i \in Applies => IsPrefix(ops, <<"POST", "push">>)
        /\ i \in Webhooks =>
             \/ IsPrefix(ops, <<"GET", "PUT", "push">>)
             \/ IsPrefix(ops, <<"GET", "push">>)
        /\ i \notin Applies \cup Webhooks => ops = <<>>
        /\ pc[i] = "card" => ops = <<"POST">>
        /\ pc[i] = "update_put" => ops = <<"GET">>
        /\ \A k \in 1..Len(trace[i]) :
             trace[i][k].op = "PUT" =>
               \E g \in 1..(k - 1) : trace[i][g].op = "GET" /\ trace[i][g].ok

\* a submission and a decision event have both made all their calls
C16_Witness ==
  /\ \E i \in Applies : OpsOf(trace[i]) = <<"POST", "push">>
  /\ \E i \in Decisions : OpsOf(trace[i]) = <<"GET", "PUT", "push">>

----------------------------------------------------------------------------
(* C17 *)

\* the numbers of the signings whose credential a store call of i carried
CredsUsed(i) == {StoreCalls(i)[k].cred : k \in 1..Len(StoreCalls(i))}

\* C17 as claimed: an invocation that has returned has signed as many
\* credentials as it has made store calls, and no two of its store calls
\* carried the same credential.
C17_Original ==
  \A i \in Inv :
    pc[i] = "done" =>
      /\ Signs(i) = Len(StoreCalls(i))
      /\ Cardinality(CredsUsed(i)) = Len(StoreCalls(i))

\* C17 as amended: a fresh signed credential is acquired once per store
\* operation, before its first store call: an invocation signs at most once,
\* every store call follows a successful signing of its own invocation and
\* carries that credential, which is held only while the operation runs; a
\* submission's append makes one store call with it, and a decision's range
\* read and write both carry the same one.
C17_OneCredentialPerOperation ==
  \A i \in Inv :
    /\ Signs(i) <= 1
    /\ StoreCalls(i) # <<>> =>
         /\ trace[i][1] = Call("sign", TRUE, 1)
         /\ CredsUsed(i) = {1}
    /\ Len(StoreCalls(i)) <= (IF i \in Applies THEN 1 ELSE 2)
    /\ loc[i].jwt.ok <=> pc[i] \in {"append_post", "update_get", "update_put"}
    /\ loc[i].jwt.ok => loc[i].jwt.iat <= clock

\* a decision event has read and written with one credential, and a
\* submission has appended with its own
C17_Witness ==
  /\ \E i \in Decisions :
       Signs(i) = 1 /\ HasCall(i, "GET", TRUE) /\ HasCall(i, "PUT", TRUE)
  /\ \E i \in Applies : Signs(i) = 1 /\ HasCall(i, "POST", TRUE)

----------------------------------------------------------------------------
(* C18 *)

\* the approval cards pushed so far
Cards == {m \in outbox : m.type = "flex"}

\* C18: for every approval card pushed for a submission and each of its two
\* action controls, parsing the control's payload the way handleWebhook does
\* yields that control's action and the id of the submission: the id that
\* the submission wrote to its row and returned.
C18_PayloadRoundTrip ==
  \A m \in Cards :
    /\ \A a \in {"approve", "reject"} :
         LET params == URLSearchParams(<<m.card[a]>>)
         IN  /\ ParamsGet(params, "action") = a
             /\ ParamsGet(params, "id") = m.id
    /\ m.id = loc[m.by].id
    /\ m.id = loc[m.by].row.A
    /\ HasCall(m.by, "POST", TRUE) => \E r \in 1..Len(sheet) : sheet[r].A = m.id
    /\ pc[m.by] = "done" => loc[m.by].response.id = m.id

\* a decision event carrying the approve payload of a pushed card has been
\* parsed by handleWebhook into that action and the id of the card's record
C18_Witness ==
  \E m \in Cards : \E i \in Decisions :
    /\ loc[i].events[1].postback[1].data = <<m.card.approve>>
    /\ loc[i].action = "approve" /\ loc[i].id = m.id
    /\ RowsOf(m.id) # {}
    /\ loc[m.by].response.id = m.id

----------------------------------------------------------------------------
(* C19 *)

\* the outcome messages pushed so far
OutcomeMessages == {m \in outbox : m.type = "text"}

\* C19 as claimed: every outcome message was pushed by an invocation whose
\* scan found the row of the message's id and whose write of the message's
\* status to that row the store accepted.
C19_OutcomeOnlyAfterWrite ==
  \A m \in OutcomeMessages :
    /\ HasCall(m.by, "PUT", TRUE)
    /\ m.id = Str(loc[m.by].id) /\ m.status = Str(loc[m.by].action)
    /\ loc[m.by].rowIndex \in 1..Len(sheet)
    /\ sheet[loc[m.by].rowIndex].A = loc[m.by].id

----------------------------------------------------------------------------
(* C20 *)

\* C20 as claimed: a row that no submission appended keeps every cell,
\* whatever id a decision payload carries.
C20_OnlyRecordsAreModified ==
  [][\A r \in 1..Len(sheet) : r \notin RecordRows => sheet'[r] = sheet[r]]_vars

====
